---- MODULE Spec2Model ----
(***************************************************************************)
(* Webhook receiver that re-synchronises the manual order of a product's   *)
(* collections and its related-products recommendation field.              *)
(*                                                                         *)
(* The repository holds four variants of the server:                       *)
(*   "index"    src/index.js          single tenant, collection order only *)
(*   "part_001" src/unnamed/part_001  single tenant, both steps            *)
(*   "part_002" src/unnamed/part_002  two tenants, POST /webhooks          *)
(*   "part_000" src/unnamed/part_000  two tenants, POST /webhooks-filtered *)
(* One of them is deployed; `app` names it.                                *)
(***************************************************************************)
EXTENDS Integers, Sequences, FiniteSets, TLC

\* ------------------------------------------------------------------ bounds
MaxRequests == 2
MaxOrder == 2
MaxHttp == 1
MaxLen == 4
MaxEdits == 1

\* --------------------------------------------------------------- constants
\* length of the base64 text of a 32-byte SHA-256 digest
DigestLen == 44

Undefined == "undefined"

PUK == "4ee229.myshopify.com"
TRADE == "trade4x4.myshopify.com"
OtherShop == "other.myshopify.com"

Apps == {"index", "part_001", "part_002", "part_000"}

\* the switch statements over the shop domain
TenantDomains == {PUK, TRADE}

ShopHeaders == {PUK, TRADE, OtherShop}

\* process.env.*_PUK / *_TRADE : secret of a tenant, undefined for any other
\* domain (the switch has no default branch)
TenantSecret(shop) ==
    CASE shop = PUK -> "kPUK"
      [] shop = TRADE -> "kTRADE"
      [] OTHER -> Undefined

Secrets == {"kPUK", "kTRADE", "kDEF"}

\* ------------------------------------------------------------ request body
BodyWithId == "{\"id\":123}"
BodyNoId == "{}"
BodyNull == "null"
BodyNotJson == "<html>"
Bodies == {BodyWithId, BodyNoId, BodyNull, BodyNotJson}

\* JSON.parse(req.body.toString())
JSONparse(body) ==
    CASE body = BodyWithId -> [threw |-> FALSE, kind |-> "object", id |-> "123"]
      [] body = BodyNoId -> [threw |-> FALSE, kind |-> "object", id |-> Undefined]
      [] body = BodyNull -> [threw |-> FALSE, kind |-> "null", id |-> Undefined]
      [] OTHER -> [threw |-> TRUE, kind |-> Undefined, id |-> Undefined]

\* data.id : reading a property of null is a TypeError
DataId(parsed) ==
    IF parsed.kind = "null"
    THEN [threw |-> TRUE, value |-> Undefined]
    ELSE [threw |-> FALSE, value |-> parsed.id]

\* ---------------------------------------------------------------- the HMAC
KeyCode(key) ==
    CASE key = "kPUK" -> 1
      [] key = "kTRADE" -> 2
      [] OTHER -> 3

BodyCode(body) ==
    CASE body = BodyWithId -> 0
      [] body = BodyNoId -> 1
      [] body = BodyNull -> 2
      [] OTHER -> 3

\* crypto.createHmac('sha256', key).update(body).digest('base64'): a text of
\* DigestLen base64 symbols (0..63), different for different (key, body)
Hmac(key, body) ==
    [i \in 1..DigestLen |-> (KeyCode(key) * 17 + BodyCode(body) * 5 + i * 3) % 64]

\* a signature text one symbol shorter than a digest
Truncated(sig) == SubSeq(sig, 1, Len(sig) - 1)

\* a signature text of the right length with its last symbol changed
Tampered(sig) == [sig EXCEPT ![Len(sig)] = (sig[Len(sig)] + 1) % 64]

\* values of req.headers['x-shopify-hmac-sha256']: no header, or a text
NoHeader == [present |-> FALSE, text |-> <<>>]

Header(text) == [present |-> TRUE, text |-> text]

HmacHeaders(body) ==
    {NoHeader}
    \cup {Header(Hmac(k, body)) : k \in Secrets}
    \cup {Header(Truncated(Hmac("kPUK", body))),
          Header(Tampered(Hmac("kPUK", body)))}

\* crypto.timingSafeEqual(a, b): RangeError when the byte lengths differ
timingSafeEqual(a, b) ==
    IF Len(a) # Len(b) THEN "threw"
    ELSE IF a = b THEN "true" ELSE "false"

\* validateWebhook(body, hmacHeader) of src/helpers/index.js. The callers of
\* part_002 pass a third argument `sig`; the function declares two parameters
\* and keys the HMAC with process.env.SHOPIFY_WEBHOOK_AUTH (envAuth).
\* createHmac with an undefined key and Buffer.from(undefined) are TypeErrors.
validateWebhook(body, hmacHeader, sig, envAuth) ==
    IF envAuth = Undefined THEN "threw"
    ELSE IF ~hmacHeader.present THEN "threw"
    ELSE timingSafeEqual(Hmac(envAuth, body), hmacHeader.text)

\* shopify.webhooks.validate of @shopify/shopify-api, configured with the
\* tenant's apiSecretKey: it reports {valid: false} for a missing or
\* non-matching HMAC header and does not throw
webhooksValidate(body, hmacHeader, apiSecretKey) ==
    IF ~hmacHeader.present THEN "false"
    ELSE IF hmacHeader.text = Hmac(apiSecretKey, body) THEN "true" ELSE "false"

\* shopifyApi({...}) refuses a configuration whose apiSecretKey or
\* adminApiAccessToken is undefined
shopifyApiThrows(shop) == TenantSecret(shop) = Undefined

\* ------------------------------------------------- Array.prototype.sort
\* Values of the product_order metafield of a member
\* no metafield (order is null), the empty text, a text that is no number, or
\* the decimal text of n
Missing == [kind |-> "missing", n |-> 0]
Empty == [kind |-> "empty", n |-> 0]
NonNumeric == [kind |-> "text", n |-> 0]
Numeric(n) == [kind |-> "number", n |-> n]
OrderValues == {Missing, NonNumeric} \cup {Numeric(n) : n \in 1..MaxOrder}

\* every kind of value, the text "0" included
SortValues == OrderValues \cup {Empty, Numeric(0)}

\* Number(node.order?.value || 0): null and "" are falsy and give 0, the
\* text "0" is truthy and gives 0, a text that is no number gives NaN
OrderNumber(value) ==
    CASE value.kind \in {"missing", "empty"} -> [nan |-> FALSE, n |-> 0]
      [] value.kind = "text" -> [nan |-> TRUE, n |-> 0]
      [] OTHER -> [nan |-> FALSE, n |-> value.n]

\* the comparator of the sort, as the engine sees it: a NaN result counts as 0
SortCompare(a, b) ==
    LET x == OrderNumber(a.order)
        y == OrderNumber(b.order)
    IN IF x.nan \/ y.nan THEN 0 ELSE x.n - y.n

Reverse(s) == [i \in 1..Len(s) |-> s[Len(s) + 1 - i]]

\* length of the initial run of w (V8 CountAndMakeRun); idx is the 1-based
\* position of the next element to look at
RECURSIVE RunLength(_, _, _)
RunLength(w, desc, idx) ==
    IF idx > Len(w) THEN Len(w)
    ELSE LET order == SortCompare(w[idx], w[idx - 1])
         IN IF desc
            THEN IF order >= 0 THEN idx - 1 ELSE RunLength(w, desc, idx + 1)
            ELSE IF order < 0 THEN idx - 1 ELSE RunLength(w, desc, idx + 1)

\* 0-based insertion point of pivot in the sorted prefix w[left..right)
RECURSIVE BinarySearch(_, _, _, _)
BinarySearch(w, pivot, left, right) ==
    IF left >= right THEN left
    ELSE LET mid == left + ((right - left) \div 2)
         IN IF SortCompare(pivot, w[mid + 1]) < 0
            THEN BinarySearch(w, pivot, left, mid)
            ELSE BinarySearch(w, pivot, mid + 1, right)

\* V8 BinaryInsertionSort: insert w[start], w[start+1], ... (0-based) in turn
RECURSIVE BinaryInsertionSort(_, _)
BinaryInsertionSort(w, start) ==
    IF start >= Len(w) THEN w
    ELSE LET pivot == w[start + 1]
             left == BinarySearch(w, pivot, 0, start)
             moved == SubSeq(w, 1, left) \o <<pivot>>
                      \o SubSeq(w, left + 1, start)
                      \o SubSeq(w, start + 2, Len(w))
         IN BinaryInsertionSort(moved, start + 1)

\* [...edges].sort(comparator) as Node's engine sorts an array of fewer than
\* 64 elements: the initial run is found (and reversed when strictly
\* descending), the rest is inserted by binary insertion
ArraySort(edges) ==
    IF Len(edges) < 2 THEN edges
    ELSE LET desc == SortCompare(edges[2], edges[1]) < 0
             run == RunLength(edges, desc, 3)
             w == IF desc
                  THEN Reverse(SubSeq(edges, 1, run))
                       \o SubSeq(edges, run + 1, Len(edges))
                  ELSE edges
         IN BinaryInsertionSort(w, run)

\* ------------------------------------------------------------ the platform
\* the page sizes of the product query: collections(first: 10) and
\* products(first: 250)
CollectionsPage == 10
ProductsPage == 250

\* productVariants(first: 100, ...)
VariantsPage == 100

Min(a, b) == IF a < b THEN a ELSE b

Members == {"p1", "p2", "p3"}

ProductId == "123"

\* the custom collections of product 123, in the order the platform lists
\* them, each with its members in their current manual order
InitialCollections ==
    << [id |-> "c1", members |-> <<"p1", "p2", "p3">>],
       [id |-> "c2", members |-> <<"p2", "p1">>] >>

\* value of custom.related_products_from_volo: no metafield, an empty text, the
\* JSON text of a list of comma-joined variant ids (groups holds the ids of
\* each list entry), or a text that is not JSON
Curated(kind, groups) == [kind |-> kind, groups |-> groups]
CuratedAbsent == Curated("absent", <<>>)
CuratedEmpty == Curated("empty", <<>>)
CuratedEmptyList == Curated("json", <<>>)
CuratedList == Curated("json", << <<"v1", "v2">>, <<"v3">> >>)
CuratedGarbage == Curated("garbage", <<>>)

\* a list of one entry longer than a page of the variants query
VariantId(k) == "v" \o ToString(k)
CuratedLong ==
    Curated("json", << [k \in 1..(VariantsPage + 1) |-> VariantId(k)] >>)
CuratedValues ==
    {CuratedAbsent, CuratedEmpty, CuratedEmptyList, CuratedList, CuratedGarbage}

\* the value of the recommendation field before any pass
PriorRecommendation == <<"Z">>

\* the product a variant belongs to
VariantParent(v) == IF v \in {"v1", "v2"} THEN "A" ELSE "B"

VARIABLES
    app,            \* which server file is deployed
    store,          \* the shop whose catalogue the run follows
    envAuth,        \* process.env.SHOPIFY_WEBHOOK_AUTH
    reqs,           \* the HTTP requests received so far
    passes,         \* passes[r]: the handleProductUpdate call of request r
    collections,    \* platform: the collections of the product
    orderMeta,      \* platform: custom.product_order of each member
    curated,        \* platform: custom.related_products_from_volo
    recommendation, \* platform: the related_products recommendation field
    synced,         \* history: a pass left every collection in its order
    history,        \* history: merchant edits made, last writer of each field
    vcall,          \* a call of validateWebhook and its result
    scall           \* a call of the sort of the members and its result

vars == <<app, store, envAuth, reqs, passes, collections, orderMeta, curated,
          recommendation, synced, history, vcall, scall>>

calls == <<vcall, scall>>

config == <<app, store, envAuth>>
platform == <<collections, orderMeta, curated, recommendation>>

SingleTenantApps == {"index", "part_001"}

\* ------------------------------------------------------ handleProductUpdate
NoResponse == [colls |-> <<>>, related |-> CuratedAbsent, productId |-> ""]

IdlePass ==
    [pc |-> "idle", id |-> "", shop |-> "", response |-> NoResponse, i |-> 0,
     calls |-> <<>>, caught |-> 0, userErrors |-> 0, rejected |-> FALSE,
     threwIn |-> "", afterSync |-> FALSE, clean |-> TRUE, applied |-> 0,
     early |-> 0, returned |-> 0]

Call(op, target, arg) == [op |-> op, target |-> target, arg |-> arg]

Rethrown(p, where) ==
    [p EXCEPT !.pc = "done", !.rejected = TRUE, !.threwIn = where]

\* a catch that issues the failed call once more
Reattempted(p, where) ==
    IF /\ p.calls # <<>>
       /\ Cardinality({k \in 1..Len(p.calls) :
                          p.calls[k] = p.calls[Len(p.calls)]}) < 2
    THEN [p EXCEPT !.calls = Append(@, p.calls[Len(p.calls)])]
    ELSE [p EXCEPT !.pc = "done", !.caught = @ + 1, !.threwIn = where]

\* catch (error) { console.error(error) }: the one catch of the function,
\* reached from the statement `where` that threw
Caught(p, where) ==
    [p EXCEPT !.pc = "done", !.caught = @ + 1, !.threwIn = where]

Returned(p) == [p EXCEPT !.pc = "done"]

\* the await of the outstanding call of the pass resumes
Answered(p) == [p EXCEPT !.returned = @ + 1]

\* what the product query returns for the product: the first collections,
\* the first members of each with their order metafield, the curated value
ProductData ==
    [productId |-> ProductId,
     related |-> curated,
     colls |-> [c \in 1..Min(Len(collections), CollectionsPage) |->
        [id |-> collections[c].id,
         edges |-> [k \in 1..Min(Len(collections[c].members), ProductsPage) |->
            [id |-> collections[c].members[k],
             order |-> orderMeta[collections[c].members[k]]]]]]]

\* a move list of the members whose position changes only
MovedOnly(edges) ==
    LET sorted == ArraySort(edges)
    IN SelectSeq([k \in 1..Len(sorted) |->
                    [id |-> sorted[k].id, newPosition |-> k]],
                 LAMBDA m : edges[m.newPosition].id # m.id)

\* [...edges].sort(...).map((product, index) => ({id, newPosition: index + 1}))
Moves(edges) ==
    LET sorted == ArraySort(edges)
    IN [k \in 1..Len(sorted) |-> [id |-> sorted[k].id, newPosition |-> k]]

Ids(s) == [k \in 1..Len(s) |-> s[k].id]

AlwaysReorder(prevOrder, newOrder) == FALSE

\* JSON.stringify(prevOrder) === JSON.stringify(newOrder)
SameOrder(prevOrder, newOrder) == prevOrder = newOrder

RECURSIVE Flat(_)
Flat(groups) ==
    IF groups = <<>> THEN <<>> ELSE Head(groups) \o Flat(Tail(groups))

\* a related-products step with no test of the shop
RelatedStepAnyShop(p) ==
    /\ app # "index"
    /\ p.response.related.kind \in {"json", "garbage"}

\* relatedProducts?.value && shop === '4ee229.myshopify.com' (part_000,
\* part_002); relatedProducts?.value (part_001); no such step in index.js
RelatedStepRuns(p) ==
    /\ app # "index"
    /\ p.response.related.kind \in {"json", "garbage"}
    /\ app \in {"part_000", "part_002"} => p.shop = PUK

\* the related-products step up to its first await: JSON.parse of the curated
\* value (a SyntaxError for a text that is not JSON), split and flat, then the
\* variants query is issued
RelatedStep(p) ==
    IF ~RelatedStepRuns(p) THEN Returned(p)
    ELSE IF p.response.related.kind = "garbage" THEN Caught(p, "JSON.parse")
    ELSE [p EXCEPT !.pc = "variantsQuery",
                   !.calls = Append(@, Call("productVariants", "",
                                            Flat(p.response.related.groups)))]

\* a loop that issues the reorder of a collection and goes on without
\* awaiting its answer
RECURSIVE ReorderLoopUnawaited(_, _)
ReorderLoopUnawaited(p, from) ==
    IF from > Len(p.response.colls) THEN RelatedStep([p EXCEPT !.i = from])
    ELSE LET collection == p.response.colls[from]
             moves == Moves(collection.edges)
         IN IF SameOrder(Ids(collection.edges), Ids(moves))
            THEN ReorderLoopUnawaited(p, from + 1)
            ELSE ReorderLoopUnawaited(
                    [p EXCEPT !.calls = Append(@,
                        Call("collectionReorderProducts", collection.id,
                             moves))],
                    from + 1)

\* the for loop over the collections from collection `from` on, up to its next
\* await: collections whose order is unchanged are skipped, the reorder of the
\* first other one is issued; after the last collection the related-products
\* step follows
RECURSIVE ReorderLoop(_, _)
ReorderLoop(p, from) ==
    IF from > Len(p.response.colls) THEN RelatedStep([p EXCEPT !.i = from])
    ELSE LET collection == p.response.colls[from]
             moves == Moves(collection.edges)
             prevOrder == Ids(collection.edges)
             newOrder == Ids(moves)
         IN IF SameOrder(prevOrder, newOrder) THEN ReorderLoop(p, from + 1)
            ELSE [p EXCEPT !.pc = "reorder", !.i = from,
                           !.calls = Append(@, Call("collectionReorderProducts",
                                                    collection.id, moves))]

\* a pass that is put off while another pass is in flight
StartWhenNoPassRuns(id, shop) ==
    LET p == [IdlePass EXCEPT !.id = id,
                !.shop = IF app \in SingleTenantApps THEN store ELSE shop]
    IN IF \E q \in 1..Len(passes) : passes[q].pc \notin {"idle", "done"}
       THEN p
       ELSE IF app \notin SingleTenantApps /\ shopifyApiThrows(shop)
       THEN Caught(p, "getClient")
       ELSE [p EXCEPT !.pc = "productQuery",
                      !.calls = <<Call("product", id, <<>>)>>]

\* handleProductUpdate(id, shop) up to its first await: getClient(shop), which
\* throws inside the try for a shop of no tenant, then the product query
HandleProductUpdateStart(id, shop) ==
    LET p == [IdlePass EXCEPT !.id = id,
                !.shop = IF app \in SingleTenantApps THEN store ELSE shop]
    IN IF app \notin SingleTenantApps /\ shopifyApiThrows(shop)
       THEN Caught(p, "getClient")
       ELSE [p EXCEPT !.pc = "productQuery",
                      !.calls = <<Call("product", id, <<>>)>>]

\* -------------------------------------------- the pass after each await
NoAuthorization(isAuth) == TRUE

\* if (!isAuth) { res.sendStatus(401); return }   /   if (!valid) { ... }
Authorized(isAuth) == isAuth = "true"

\* a response sent before handleProductUpdate is called
Respond200First(pass) ==
    [code |-> 200, pass |-> [pass EXCEPT !.early = 0]]

\* handleProductUpdate(...) has returned its promise at its first await, then
\* res.sendStatus(200): the calls the pass issued up to that await (early)
\* precede the response
Respond200(pass) ==
    [code |-> 200, pass |-> [pass EXCEPT !.early = Len(pass.calls)]]

AcceptRequiringId(shop, body) ==
    LET parsed == JSONparse(body)
        id == DataId(parsed)
    IN IF parsed.threw \/ id.threw \/ id.value = Undefined
       THEN [code |-> 500, pass |-> IdlePass]
       ELSE Respond200(HandleProductUpdateStart(id.value, shop))

\* const data = JSON.parse(req.body.toString());
\* handleProductUpdate(data.id, shop); res.sendStatus(200)
\* with the catch of the handler: res.sendStatus(500)
Accept(shop, body) ==
    LET parsed == JSONparse(body)
        id == DataId(parsed)
    IN IF parsed.threw \/ id.threw
       THEN [code |-> 500, pass |-> IdlePass]
       ELSE Respond200(HandleProductUpdateStart(id.value, shop))

\* the handler from the result of the verification on; rejectCode is the
\* status sent for a failed verification
AfterVerification(isAuth, rejectCode, shop, body) ==
    IF isAuth = "threw" THEN [code |-> 500, pass |-> IdlePass]
    ELSE IF ~Authorized(isAuth) THEN [code |-> rejectCode, pass |-> IdlePass]
    ELSE Accept(shop, body)

Request(shop, hmac, body, stage, isAuth, responses) ==
    [shop |-> shop, hmac |-> hmac, body |-> body, stage |-> stage,
     isAuth |-> isAuth, responses |-> responses]

\* app.post('/webhooks') of index.js, part_001 and part_002
Webhooks(shop, hmacHeader, body) ==
    /\ app # "part_000"
    /\ LET sig == IF app = "part_002" THEN TenantSecret(shop) ELSE Undefined
           isAuth == validateWebhook(body, hmacHeader, sig, envAuth)
           out == AfterVerification(isAuth, 401, shop, body)
       IN /\ reqs' = Append(reqs, Request(shop, hmacHeader, body, "responded",
                                          isAuth, <<out.code>>))
          /\ passes' = Append(passes, out.pass)
    /\ UNCHANGED <<config, platform, synced, history, calls>>

\* app.post('/webhooks-filtered') of part_000 up to its await: getShopify(shop)
\* throws for a shop of no tenant and the catch answers 500
WebhooksFiltered(shop, hmacHeader, body) ==
    /\ app = "part_000"
    /\ reqs' = Append(reqs,
          IF shopifyApiThrows(shop)
          THEN Request(shop, hmacHeader, body, "responded", "none", <<500>>)
          ELSE Request(shop, hmacHeader, body, "validating", "none", <<>>))
    /\ passes' = Append(passes, IdlePass)
    /\ UNCHANGED <<config, platform, synced, history, calls>>

\* app.post('/webhooks-filtered') after `await webhooks.validate(...)`
ValidateReturns(r) ==
    /\ reqs[r].stage = "validating"
    /\ LET q == reqs[r]
           valid == webhooksValidate(q.body, q.hmac, TenantSecret(q.shop))
           out == AfterVerification(valid, 400, q.shop, q.body)
       IN /\ reqs' = [reqs EXCEPT ![r] = Request(q.shop, q.hmac, q.body,
                                          "responded", valid, <<out.code>>)]
          /\ passes' = [passes EXCEPT ![r] = out.pass]
    /\ UNCHANGED <<config, platform, synced, history, calls>>

ReorderCalls(p) ==
    Cardinality({k \in 1..Len(p.calls) :
                    p.calls[k].op = "collectionReorderProducts"})

\* the history variable: it becomes true when a pass finishes its loop having
\* had every reorder it issued applied, with no reorder of another pass since
\* its product query; any later reorder makes it false
SyncedAfter(p, p2, appliedNow) ==
    IF /\ p2.response # NoResponse
       /\ p.i < p2.i
       /\ p2.i > Len(p2.response.colls)
       /\ p2.applied = ReorderCalls(p2)
       /\ p2.clean
    THEN TRUE
    ELSE IF appliedNow THEN FALSE ELSE synced

ProductQueryOutcomes(id) ==
    IF id = ProductId THEN {"ok", "null", "error"} ELSE {"null", "error"}

\* after `await client.request(getProductQuery(id))`: the request failed, or
\* data.product is null (reading .collections throws), or the loop starts
ProductQueryReturns(r, outcome) ==
    /\ passes[r].pc = "productQuery"
    /\ outcome \in ProductQueryOutcomes(passes[r].id)
    /\ LET p == Answered(passes[r])
           p2 == IF outcome = "ok"
                 THEN ReorderLoop([p EXCEPT !.response = ProductData,
                                            !.afterSync = synced,
                                            !.clean = TRUE,
                                            !.i = 1], 1)
                 ELSE Caught(p, "product")
       IN /\ passes' = [passes EXCEPT ![r] = p2]
          /\ synced' = SyncedAfter(p, p2, FALSE)
    /\ UNCHANGED <<config, reqs, platform, history, calls>>

\* the platform moves the listed members to their new positions
ApplyMoves(colls, id, moves) ==
    [c \in 1..Len(colls) |->
        IF colls[c].id # id THEN colls[c]
        ELSE [colls[c] EXCEPT !.members =
                Ids(moves) \o SelectSeq(colls[c].members,
                    LAMBDA m : \A k \in 1..Len(moves) : moves[k].id # m)]]

Outcomes == {"ok", "userErrors", "error"}

\* after `await client.request(REORDER_Q, ...)`: the request failed (the catch
\* ends the pass), or it returned user errors (logged), or the job was queued
ReorderReturns(r, outcome) ==
    /\ passes[r].pc = "reorder"
    /\ outcome \in Outcomes
    /\ LET p == Answered(passes[r])
           call == p.calls[Len(p.calls)]
           p2 == CASE outcome = "error" ->
                        Caught(p, "collectionReorderProducts")
                   [] outcome = "userErrors" ->
                        ReorderLoop([p EXCEPT !.userErrors = @ + 1], p.i + 1)
                   [] OTHER ->
                        ReorderLoop([p EXCEPT !.applied = @ + 1], p.i + 1)
       IN /\ collections' = IF outcome = "ok"
                            THEN ApplyMoves(collections, call.target, call.arg)
                            ELSE collections
          /\ passes' = [q \in 1..Len(passes) |->
                          IF q = r THEN p2
                          ELSE IF outcome = "ok"
                               THEN [passes[q] EXCEPT !.clean = FALSE]
                               ELSE passes[q]]
          /\ synced' = SyncedAfter(p, p2, outcome = "ok")
          /\ history' = IF outcome = "ok"
                        THEN [history EXCEPT !.writer[call.target] = r]
                        ELSE history
    /\ UNCHANGED <<config, reqs, orderMeta, curated, recommendation, calls>>

\* productVariants(first: 100, query: "id:.. OR id:.."): the edges of the
\* first page of the variants asked for, each with its parent product
ResolveVariants(ids) ==
    [k \in 1..Min(Len(ids), VariantsPage) |->
        [product |-> VariantParent(ids[k])]]

\* the parent products with each product listed once
DistinctProductIds(edges) ==
    LET first == SelectSeq([k \in 1..Len(edges) |->
                              [k |-> k, product |-> edges[k].product]],
                           LAMBDA e : \A j \in 1..(e.k - 1) :
                                          edges[j].product # e.product)
    IN [k \in 1..Len(first) |-> first[k].product]

\* relatedVariants.data.productVariants.edges.map(({ node }) => node.product.id)
RelatedProductIds(edges) == [k \in 1..Len(edges) |-> edges[k].product]

\* a write of the curated field
CuratedMetafield(ownerId, value) ==
    [key |-> "related_products_from_volo",
     namespace |-> "custom",
     ownerId |-> ownerId,
     type |-> "list.product_reference",
     value |-> value]

\* const metafield = {key, namespace, ownerId, type, value}
Metafield(ownerId, value) ==
    [key |-> "related_products",
     namespace |-> "shopify--discovery--product_recommendation",
     ownerId |-> ownerId,
     type |-> "list.product_reference",
     value |-> value]

\* after `await client.request(query)` of the variants: the metafield write
\* is issued with the parent ids, owned by the product of the response
VariantsQueryReturns(r, outcome) ==
    /\ passes[r].pc = "variantsQuery"
    /\ outcome \in {"ok", "error"}
    /\ LET p == Answered(passes[r])
           call == p.calls[Len(p.calls)]
       IN passes' = [passes EXCEPT ![r] =
            IF outcome = "error" THEN Caught(p, "productVariants")
            ELSE [p EXCEPT !.pc = "metafieldsSet",
                           !.calls = Append(@, Call("metafieldsSet",
                                p.response.productId,
                                Metafield(p.response.productId,
                                    RelatedProductIds(
                                        ResolveVariants(call.arg)))))]]
    /\ UNCHANGED <<config, reqs, platform, synced, history, calls>>

\* metafieldsSet replaces the value of the field of the owner that the
\* namespace and the key of the input name
Sets(metafield, field) ==
    /\ metafield.ownerId = field.ownerId
    /\ metafield.namespace = field.namespace
    /\ metafield.key = field.key

\* after `await client.request(METAFIELD_M, ...)`
MetafieldsSetReturns(r, outcome) ==
    /\ passes[r].pc = "metafieldsSet"
    /\ outcome \in Outcomes
    /\ LET p == Answered(passes[r])
           call == p.calls[Len(p.calls)]
       IN /\ passes' = [passes EXCEPT ![r] =
                CASE outcome = "error" -> Caught(p, "metafieldsSet")
                  [] outcome = "userErrors" ->
                        Returned([p EXCEPT !.userErrors = @ + 1])
                  [] OTHER -> Returned(p)]
          /\ recommendation' =
                IF outcome = "ok" /\ Sets(call.arg, Metafield(ProductId, <<>>))
                THEN call.arg.value ELSE recommendation
          /\ curated' =
                IF /\ outcome = "ok"
                   /\ Sets(call.arg, CuratedMetafield(ProductId, <<>>))
                THEN Curated("json", <<call.arg.value>>) ELSE curated
          /\ history' = IF outcome = "ok"
                        THEN [history EXCEPT !.writer["related_products"] = r]
                        ELSE history
    /\ UNCHANGED <<config, reqs, collections, orderMeta, synced, calls>>

PassStep ==
    \E r \in 1..Len(passes) :
        \/ \E outcome \in {"ok", "null", "error"} : ProductQueryReturns(r, outcome)
        \/ \E outcome \in Outcomes : ReorderReturns(r, outcome)
        \/ \E outcome \in {"ok", "error"} : VariantsQueryReturns(r, outcome)
        \/ \E outcome \in Outcomes : MetafieldsSetReturns(r, outcome)
        \/ ValidateReturns(r)

\* no merchant edit yet, and no write landed yet on either collection or on
\* the recommendation field (writer: the request whose write landed last)
NoHistory ==
    [edits |-> 0,
     writer |-> [f \in {"c1", "c2", "related_products"} |-> 0]]

NoSort == [made |-> FALSE, edges |-> <<>>, moves |-> <<>>]

\* --------------------------------------------------------- specifications
NoCall == [made |-> FALSE, body |-> BodyWithId, header |-> NoHeader,
           sigA |-> Undefined, sigB |-> Undefined, resA |-> "none",
           resB |-> "none"]

\* the secret the platform signs the webhooks of a shop with
SigningSecret(shop) == TenantSecret(shop)

\* the deployments that verify the webhooks of the store they serve: the
\* single-tenant files serve one store
Init ==
    /\ app \in Apps
    /\ store \in (IF app \in SingleTenantApps THEN {PUK} ELSE TenantDomains)
    /\ envAuth = IF app = "part_000" THEN Undefined ELSE SigningSecret(store)
    /\ reqs = <<>>
    /\ passes = <<>>
    /\ collections = InitialCollections
    /\ orderMeta \in [Members -> OrderValues]
    /\ curated \in CuratedValues
    /\ recommendation = PriorRecommendation
    /\ synced = FALSE
    /\ history = NoHistory
    /\ vcall = NoCall
    /\ scall = NoSort

\* the platform delivers a product-update webhook of the store, signed
Deliver ==
    /\ Len(reqs) < MaxRequests
    /\ LET body == BodyWithId
           header == Header(Hmac(SigningSecret(store), body))
       IN \/ Webhooks(store, header, body)
          \/ WebhooksFiltered(store, header, body)

Next == Deliver \/ PassStep

Spec == Init /\ [][Next]_vars

\* the collection-order step on its own: products with no curated value, for
\* which the related-products step never runs
InitOrder ==
    /\ Init
    /\ curated = CuratedAbsent

OrderStep ==
    \E r \in 1..Len(passes) :
        \/ \E outcome \in {"ok", "null", "error"} : ProductQueryReturns(r, outcome)
        \/ \E outcome \in Outcomes : ReorderReturns(r, outcome)
        \/ ValidateReturns(r)

NextOrder == Deliver \/ OrderStep

OrderSpec == InitOrder /\ [][NextOrder]_vars

\* passes that overlap while the merchant edits the metadata: the webhooks
\* report edits of the product, and an edit can fall between the product
\* queries of two passes; the single-tenant server with the related-products
\* step, and a platform that answers every request
ScenarioOrder ==
    [m \in Members |->
        CASE m = "p1" -> Numeric(2)
          [] m = "p2" -> Numeric(1)
          [] OTHER -> Missing]

\* order values under which both collections are out of order
UnsortedOrder ==
    [m \in Members |->
        CASE m = "p1" -> Numeric(1)
          [] m = "p2" -> Numeric(2)
          [] OTHER -> Missing]

CuratedEdited == Curated("json", << <<"v3">> >>)

InitRace ==
    /\ app = "part_001"
    /\ store = PUK
    /\ envAuth = SigningSecret(store)
    /\ reqs = <<>>
    /\ passes = <<>>
    /\ collections = InitialCollections
    /\ orderMeta = ScenarioOrder
    /\ curated = CuratedList
    /\ recommendation = PriorRecommendation
    /\ synced = FALSE
    /\ history = NoHistory
    /\ vcall = NoCall
    /\ scall = NoSort

\* the merchant sets the product_order of the updated product, member p1 of
\* its collections
EditOrder ==
    /\ history.edits < MaxEdits
    /\ \E m \in {"p1"}, v \in OrderValues :
          /\ v # orderMeta[m]
          /\ orderMeta' = [orderMeta EXCEPT ![m] = v]
    /\ history' = [history EXCEPT !.edits = @ + 1]
    /\ synced' = FALSE
    /\ UNCHANGED <<config, reqs, passes, collections, curated,
                   recommendation, calls>>

\* the merchant sets the curated related-products value
EditCurated ==
    /\ history.edits < MaxEdits
    /\ curated # CuratedEdited
    /\ curated' = CuratedEdited
    /\ history' = [history EXCEPT !.edits = @ + 1]
    /\ UNCHANGED <<config, reqs, passes, collections, orderMeta,
                   recommendation, synced, calls>>

\* the platform delivers the webhook of an edit to app.post('/webhooks')
DeliverRace ==
    /\ Len(reqs) < MaxRequests
    /\ Webhooks(store, Header(Hmac(SigningSecret(store), BodyWithId)),
                BodyWithId)

\* the steps of the passes when the platform answers every request
RaceStep ==
    \E r \in 1..Len(passes) :
        \/ ProductQueryReturns(r, "ok")
        \/ ReorderReturns(r, "ok")
        \/ VariantsQueryReturns(r, "ok")
        \/ MetafieldsSetReturns(r, "ok")

NextRace == DeliverRace \/ RaceStep \/ EditOrder \/ EditCurated

RaceSpec == InitRace /\ [][NextRace]_vars

\* the calls of a pass one after the other: a store where both collections
\* of the product are out of order, with and without a curated list, and a
\* platform that answers each request in every way
InitSeq ==
    /\ app \in Apps
    /\ store \in (IF app \in SingleTenantApps THEN {PUK} ELSE TenantDomains)
    /\ envAuth = IF app = "part_000" THEN Undefined ELSE SigningSecret(store)
    /\ reqs = <<>>
    /\ passes = <<>>
    /\ collections = InitialCollections
    /\ orderMeta = UnsortedOrder
    /\ curated \in {CuratedAbsent, CuratedList}
    /\ recommendation = PriorRecommendation
    /\ synced = FALSE
    /\ history = NoHistory
    /\ vcall = NoCall
    /\ scall = NoSort

DeliverSeq ==
    /\ Len(reqs) < MaxHttp
    /\ LET body == BodyWithId
           header == Header(Hmac(SigningSecret(store), body))
       IN \/ Webhooks(store, header, body)
          \/ WebhooksFiltered(store, header, body)

NextSeq == DeliverSeq \/ PassStep

SeqSpec == InitSeq /\ [][NextSeq]_vars

\* the sort of the members of one collection on its own: any members in any
\* fetch order (the id of a member is its fetch position), any order values
SortInputs ==
    UNION {[1..n -> SortValues] : n \in 0..MaxLen}

InitSort ==
    /\ app = "part_000"
    /\ store = PUK
    /\ envAuth = Undefined
    /\ reqs = <<>>
    /\ passes = <<>>
    /\ collections = InitialCollections
    /\ orderMeta = [m \in Members |-> Missing]
    /\ curated = CuratedAbsent
    /\ recommendation = PriorRecommendation
    /\ synced = FALSE
    /\ history = NoHistory
    /\ vcall = NoCall
    /\ \E values \in SortInputs :
         scall = [NoSort EXCEPT !.edges =
                    [k \in 1..Len(values) |-> [id |-> k, order |-> values[k]]]]

\* products.edges.sort(...).map(...) of one collection
SortCall ==
    /\ ~scall.made
    /\ scall' = [scall EXCEPT !.made = TRUE, !.moves = Moves(scall.edges)]
    /\ UNCHANGED <<config, reqs, passes, platform, synced, history, vcall>>

NextSort == SortCall

SortSpec == InitSort /\ [][NextSort]_vars

\* any client posts any request
InitHttp ==
    /\ app \in Apps
    /\ store = PUK
    /\ envAuth \in (IF app = "part_000" THEN {Undefined}
                    ELSE {Undefined, "kPUK", "kDEF"})
    /\ reqs = <<>>
    /\ passes = <<>>
    /\ collections = InitialCollections
    /\ orderMeta = ScenarioOrder
    /\ curated \in {CuratedList, CuratedGarbage, CuratedLong}
    /\ recommendation = PriorRecommendation
    /\ synced = FALSE
    /\ history = NoHistory
    /\ vcall = NoCall
    /\ scall = NoSort

Post ==
    /\ Len(reqs) < MaxHttp
    /\ \E shop \in ShopHeaders, body \in Bodies :
         \E header \in HmacHeaders(body) :
            \/ Webhooks(shop, header, body)
            \/ WebhooksFiltered(shop, header, body)

NextHttp == Post \/ PassStep

HttpSpec == InitHttp /\ [][NextHttp]_vars

\* validateWebhook on its own: any body, any signature header, called on
\* behalf of tenant A and of tenant B, with SHOPIFY_WEBHOOK_AUTH set
InitVerify ==
    /\ app = "part_002"
    /\ store = PUK
    /\ envAuth \in Secrets
    /\ reqs = <<>>
    /\ passes = <<>>
    /\ collections = InitialCollections
    /\ orderMeta = [m \in Members |-> Missing]
    /\ curated = CuratedAbsent
    /\ recommendation = PriorRecommendation
    /\ synced = FALSE
    /\ history = NoHistory
    /\ scall = NoSort
    /\ \E body \in Bodies, sigA \in Secrets, sigB \in Secrets :
         \E header \in HmacHeaders(body) :
            vcall = [NoCall EXCEPT !.body = body, !.header = header,
                                   !.sigA = sigA, !.sigB = sigB]

VerifyCall ==
    /\ ~vcall.made
    /\ vcall' = [vcall EXCEPT
          !.made = TRUE,
          !.resA = validateWebhook(vcall.body, vcall.header, vcall.sigA, envAuth),
          !.resB = validateWebhook(vcall.body, vcall.header, vcall.sigB, envAuth)]
    /\ UNCHANGED <<config, reqs, passes, platform, synced, history, scall>>

NextVerify == VerifyCall

VerifySpec == InitVerify /\ [][NextVerify]_vars

\* ------------------------------------------------------------- the claims
Requests == 1..Len(reqs)

Responded(r) == reqs[r].stage = "responded"

HasCall(p, op) == \E k \in 1..Len(p.calls) : p.calls[k].op = op

\* C1: a pass whose product query ran after a pass had every reorder it issued
\* applied (the order metadata never changes in a run) issues no reorder
\* mutation
C1_Idempotent ==
    \A r \in Requests :
        passes[r].afterSync => ReorderCalls(passes[r]) = 0

\* a pass had its reorders applied and a later pass has run to its end
C1_Witness ==
    \E r1, r2 \in Requests :
        /\ r1 # r2
        /\ ReorderCalls(passes[r1]) >= 1
        /\ passes[r1].applied = ReorderCalls(passes[r1])
        /\ passes[r2].afterSync
        /\ passes[r2].pc = "done"

\* C2: validateWebhook, called with the secret it is configured with, never
\* throws and returns true exactly when the header is the base64 HMAC of the
\* body under that secret
C2_VerifyNeverThrows ==
    (vcall.made /\ vcall.sigA = envAuth) =>
        /\ vcall.resA # "threw"
        /\ vcall.resA = "true" <=>
              vcall.header = Header(Hmac(vcall.sigA, vcall.body))

\* C3: a signature valid under the secret of tenant A fails verification when
\* the verifier is called with the different secret of tenant B
C3_TenantIsolation ==
    (/\ vcall.made
     /\ vcall.sigA # vcall.sigB
     /\ vcall.header = Header(Hmac(vcall.sigA, vcall.body))) =>
        vcall.resB # "true"

\* C4: in the two-tenant servers a request whose shop-domain header is no
\* tenant domain never gets a 200 response and no pass is started for it
C4_UnknownDomainRejected ==
    \A r \in Requests :
        (app \notin SingleTenantApps /\ reqs[r].shop \notin TenantDomains) =>
            /\ \A k \in 1..Len(reqs[r].responses) : reqs[r].responses[k] # 200
            /\ passes[r].pc = "idle"

\* C5: a pass is started only for a request whose signature verification
\* returned true
C5_AuthorizationGate ==
    \A r \in Requests :
        passes[r].pc # "idle" => reqs[r].isAuth = "true"

\* a verified request whose pass has issued its product query
C5_Witness ==
    \E r \in Requests :
        /\ reqs[r].isAuth = "true"
        /\ HasCall(passes[r], "product")

NeedsReorder(collection) ==
    ~SameOrder(Ids(collection.edges), Ids(Moves(collection.edges)))

LoopCompleted(p) ==
    p.response # NoResponse /\ p.i > Len(p.response.colls)

\* C6: when the related-products step throws the collection loop has
\* completed, and when the collection loop throws the related-products step
\* is still attempted
C6_ReconcilersIsolated ==
    \A r \in Requests :
        LET p == passes[r]
        IN p.pc = "done" =>
            /\ p.threwIn \in {"JSON.parse", "productVariants", "metafieldsSet"}
                  => LoopCompleted(p)
            /\ (p.threwIn = "collectionReorderProducts" /\ RelatedStepRuns(p))
                  => HasCall(p, "productVariants")

\* C7: at the end of a pass that fetched the product, every collection whose
\* order had to change has had its reorder issued
C7_CollectionsIsolated ==
    \A r \in Requests :
        LET p == passes[r]
        IN (p.pc = "done" /\ p.response # NoResponse) =>
            \A c \in 1..Len(p.response.colls) :
                NeedsReorder(p.response.colls[c]) =>
                    \E k \in 1..Len(p.calls) :
                        /\ p.calls[k].op = "collectionReorderProducts"
                        /\ p.calls[k].target = p.response.colls[c].id

\* C8: handleProductUpdate never ends in a rejected promise, and a pass in
\* which a statement threw has ended with the error caught once
C8_DispatcherNeverRaises ==
    \A r \in Requests :
        LET p == passes[r]
        IN /\ ~p.rejected
           /\ p.threwIn # "" => (p.pc = "done" /\ p.caught = 1)

\* a pass ended by a failed outbound call
C8_Witness ==
    \E r \in Requests :
        /\ passes[r].pc = "done"
        /\ passes[r].threwIn \in {"product", "collectionReorderProducts",
                                  "productVariants", "metafieldsSet"}

\* C9 as stated: a verified request whose body parses is answered once, 200
C9_ParsedGets200 ==
    \A r \in Requests :
        (/\ Responded(r)
         /\ reqs[r].isAuth = "true"
         /\ ~JSONparse(reqs[r].body).threw) =>
            reqs[r].responses = <<200>>

\* C9 amended: a verified request whose body parses to a value other than
\* null is answered once, with 200, whatever its pass does afterwards
C9_ParsedNonNullGets200 ==
    \A r \in Requests :
        (/\ Responded(r)
         /\ reqs[r].isAuth = "true"
         /\ ~JSONparse(reqs[r].body).threw
         /\ JSONparse(reqs[r].body).kind # "null") =>
            reqs[r].responses = <<200>>

\* a verified request answered 200 whose pass has ended in a caught error
C9_Witness ==
    \E r \in Requests :
        /\ reqs[r].isAuth = "true"
        /\ reqs[r].responses = <<200>>
        /\ passes[r].pc = "done"
        /\ passes[r].caught = 1

\* C10: a verified request whose body is no JSON or has no id field is
\* answered 500 and starts no pass
C10_MalformedGets500 ==
    \A r \in Requests :
        (/\ Responded(r)
         /\ reqs[r].isAuth = "true"
         /\ (JSONparse(reqs[r].body).threw
             \/ JSONparse(reqs[r].body).id = Undefined)) =>
            /\ reqs[r].responses = <<500>>
            /\ passes[r].pc = "idle"

\* C11: the desired order of a collection lists the fetched members by
\* ascending numeric order value, and two members with equal order values
\* keep their fetch order.  Stated of the members whose value is a number
\* (missing and empty count as 0), which every reading of the claim covers.
C11_StableAscending ==
    scall.made =>
        /\ Len(scall.moves) = Len(scall.edges)
        /\ {scall.moves[k].id : k \in 1..Len(scall.moves)}
              = 1..Len(scall.edges)
        /\ \A i, j \in 1..Len(scall.moves) :
              LET a == OrderNumber(scall.edges[scall.moves[i].id].order)
                  b == OrderNumber(scall.edges[scall.moves[j].id].order)
              IN (i < j /\ ~a.nan /\ ~b.nan) =>
                    \/ a.n < b.n
                    \/ a.n = b.n /\ scall.moves[i].id < scall.moves[j].id

\* the members with a missing, empty or non-numeric value given the value 0
ZeroFilled(edges) ==
    [k \in 1..Len(edges) |->
        IF edges[k].order.kind \in {"missing", "empty", "text"}
        THEN [edges[k] EXCEPT !.order = Numeric(0)]
        ELSE edges[k]]

\* C12: a member whose product_order is missing, empty or non-numeric is
\* sorted exactly as if its order value were 0.
C12_DefaultsToZero ==
    scall.made => scall.moves = Moves(ZeroFilled(scall.edges))

\* the reorder mutation of collection c of its snapshot that pass p issued
ReorderIssued(p, c) ==
    \E k \in 1..Len(p.calls) :
        /\ p.calls[k].op = "collectionReorderProducts"
        /\ p.calls[k].target = p.response.colls[c].id

\* C13: for each collection of a pass, a reorder mutation is issued if and
\* only if the desired id sequence differs from the fetched id sequence.
C13_ReorderIffChanged ==
    \A r \in Requests :
        LET p == passes[r]
        IN (p.pc = "done" /\ p.response # NoResponse) =>
            \A c \in 1..Len(p.response.colls) :
                ReorderIssued(p, c) <=> NeedsReorder(p.response.colls[c])

\* C14: every reorder mutation carries the full move list of its collection:
\* each fetched member exactly once, in the desired order, with the positions
\* 1..n.
C14_FullMoveList ==
    \A r \in Requests :
        LET p == passes[r]
        IN \A k \in 1..Len(p.calls) :
            p.calls[k].op = "collectionReorderProducts" =>
                \E c \in 1..Len(p.response.colls) :
                    LET edges == p.response.colls[c].edges
                        moves == p.calls[k].arg
                    IN /\ p.response.colls[c].id = p.calls[k].target
                       /\ Len(moves) = Len(edges)
                       /\ \A e \in 1..Len(edges) :
                             Cardinality({m \in 1..Len(moves) :
                                            moves[m].id = edges[e].id}) = 1
                       /\ \A m \in 1..Len(moves) : moves[m].newPosition = m
                       /\ Ids(moves) = Ids(ArraySort(edges))

\* a reorder mutation of the three-member collection was issued
C14_Witness ==
    \E r \in Requests :
        \E k \in 1..Len(passes[r].calls) :
            /\ passes[r].calls[k].op = "collectionReorderProducts"
            /\ passes[r].calls[k].target = "c1"
            /\ Len(passes[r].calls[k].arg) = 3

\* C15: when the curated value a pass fetched is absent or empty (no value,
\* the empty text, or a list with no identifiers) the pass issues no variant
\* query and no metadata write.
C15_AbsentOrEmptyIsNoOp ==
    \A r \in Requests :
        LET p == passes[r]
        IN p.response.related \in {CuratedAbsent, CuratedEmpty, CuratedEmptyList}
              => /\ ~HasCall(p, "productVariants")
                 /\ ~HasCall(p, "metafieldsSet")

\* C16: the two-tenant servers run the related-products step only for the
\* tenant it is configured for: a pass for any other shop issues no variant
\* query and no metadata write.
C16_RelatedOnlyForConfiguredTenant ==
    \A r \in Requests :
        LET p == passes[r]
        IN (app \notin SingleTenantApps /\ p.shop # PUK) =>
              /\ ~HasCall(p, "productVariants")
              /\ ~HasCall(p, "metafieldsSet")

\* a pass for the other tenant fetched a product with a curated list, went
\* through all its collections and returned
C16_Witness ==
    \E r \in Requests :
        LET p == passes[r]
        IN /\ app \notin SingleTenantApps
           /\ p.shop = TRADE
           /\ p.pc = "done"
           /\ p.threwIn = ""
           /\ p.response.related = CuratedList
           /\ LoopCompleted(p)

\* the value of the metadata write that pass p issued last
WrittenValue(p) ==
    LET k == CHOOSE k \in 1..Len(p.calls) :
                /\ p.calls[k].op = "metafieldsSet"
                /\ \A j \in (k + 1)..Len(p.calls) :
                      p.calls[j].op # "metafieldsSet"
    IN p.calls[k].arg.value

\* C17: the value written to the recommendation field is the list of the
\* parent product ids of the resolved variants, one entry per resolved variant
\* in resolution order with duplicates kept, and it replaces the prior value
\* whole; a curated value ["v1,v2","v3"] with v1, v2 of A and v3 of B writes
\* [A, A, B].
C17_WritesParentsOfResolvedVariants ==
    \A r \in Requests :
        LET p == passes[r]
        IN /\ \A k \in 1..Len(p.calls) :
                p.calls[k].op = "metafieldsSet" =>
                    /\ k > 1
                    /\ p.calls[k - 1].op = "productVariants"
                    /\ LET edges == ResolveVariants(p.calls[k - 1].arg)
                       IN p.calls[k].arg.value =
                            [j \in 1..Len(edges) |-> edges[j].product]
           /\ (HasCall(p, "metafieldsSet") /\ p.response.related = CuratedList)
                => WrittenValue(p) = <<"A", "A", "B">>
           /\ history.writer["related_products"] = r
                => recommendation = WrittenValue(p)

\* the write of [A, A, B] has replaced the prior value
C17_Witness ==
    /\ history.writer["related_products"] # 0
    /\ recommendation = <<"A", "A", "B">>

\* C18: the parents of the variant ids are queried in batches of at most 100
\* identifiers: no variant query carries more than 100 identifiers, and every
\* identifier of the curated list is in a variant query of the pass.
C18_BatchesOfHundred ==
    \A r \in Requests :
        LET p == passes[r]
        IN /\ \A k \in 1..Len(p.calls) :
                p.calls[k].op = "productVariants" =>
                    Len(p.calls[k].arg) <= VariantsPage
           /\ HasCall(p, "productVariants") =>
                LET ids == Flat(p.response.related.groups)
                IN \A i \in 1..Len(ids) :
                    \E k \in 1..Len(p.calls) :
                        /\ p.calls[k].op = "productVariants"
                        /\ \E j \in 1..Len(p.calls[k].arg) :
                              p.calls[k].arg[j] = ids[i]

\* the order and curated metadata are as pass p fetched them
MetadataAsFetched(p) ==
    /\ p.response.related = curated
    /\ \A c \in 1..Len(p.response.colls) :
          \A e \in 1..Len(p.response.colls[c].edges) :
              LET edge == p.response.colls[c].edges[e]
              IN edge.order = orderMeta[edge.id]

\* C19: the system never writes product_order nor the curated
\* related_products_from_volo: every request of a pass is a read, the reorder
\* of a collection of the product, or a set of the related_products
\* recommendation field owned by the updated product, and the two metadata
\* fields keep the values the passes fetched.
C19_WritesOnlyOrderAndRecommendation ==
    \A r \in Requests :
        LET p == passes[r]
        IN /\ \A k \in 1..Len(p.calls) :
                LET call == p.calls[k]
                IN \/ call.op \in {"product", "productVariants"}
                   \/ /\ call.op = "collectionReorderProducts"
                      /\ \E c \in 1..Len(p.response.colls) :
                            p.response.colls[c].id = call.target
                   \/ /\ call.op = "metafieldsSet"
                      /\ call.arg.key = "related_products"
                      /\ call.arg.namespace =
                            "shopify--discovery--product_recommendation"
                      /\ call.arg.ownerId = p.id
           /\ p.response # NoResponse => MetadataAsFetched(p)

\* a pass had a reorder and its set of the recommendation field applied
C19_Witness ==
    \E r \in Requests :
        /\ passes[r].applied >= 1
        /\ history.writer["related_products"] = r
        /\ passes[r].pc = "done"

\* the moves of the reorder of collection id that pass p issued
IssuedMoves(p, id) ==
    LET k == CHOOSE k \in 1..Len(p.calls) :
                /\ p.calls[k].op = "collectionReorderProducts"
                /\ p.calls[k].target = id
    IN p.calls[k].arg

CollectionOf(id) ==
    collections[CHOOSE c \in 1..Len(collections) : collections[c].id = id]

\* C20: there is no mutual exclusion between passes: the pass of an accepted
\* event is started at once, whatever other passes are in flight, and the
\* persisted order of a collection and the persisted related-products value
\* are those of whichever write landed last.
C20_NoMutualExclusion ==
    /\ \A r \in Requests :
          (Responded(r) /\ reqs[r].responses = <<200>>) =>
              passes[r].pc # "idle"
    /\ \A id \in {"c1", "c2"} :
          history.writer[id] # 0 =>
              CollectionOf(id).members =
                  Ids(IssuedMoves(passes[history.writer[id]], id))
    /\ history.writer["related_products"] # 0 =>
          recommendation =
              WrittenValue(passes[history.writer["related_products"]])

\* two passes overlapped and the write of the older snapshot landed last: the
\* pass of the first event fetched before an edit of the order metadata, the
\* pass of the second event fetched after it, both reordered collection c1,
\* and c1 is left in the order of the first pass, not that of the second
C20_Witness ==
    \E a, b \in Requests :
        /\ a < b
        /\ passes[a].response # NoResponse
        /\ passes[b].response # NoResponse
        /\ ~MetadataAsFetched(passes[a])
        /\ MetadataAsFetched(passes[b])
        /\ ReorderIssued(passes[a], 1)
        /\ ReorderIssued(passes[b], 1)
        /\ history.writer["c1"] = a
        /\ passes[b].i > 1
        /\ passes[b].threwIn = ""
        /\ passes[b].userErrors = 0
        /\ CollectionOf("c1").members = Ids(IssuedMoves(passes[a], "c1"))
        /\ CollectionOf("c1").members # Ids(IssuedMoves(passes[b], "c1"))

\* C21: the pass of an event runs after the HTTP response to the event has
\* been sent: no outbound call of the pass is issued before the response.
C21_NoCallBeforeResponse ==
    \A r \in Requests : passes[r].early = 0

\* C21, amended: the handler sends its response without awaiting the pass.
\* When the 200 is sent the pass has run up to its first await: it has issued
\* its product query (unless getClient threw) and no other call; every
\* mutation and the variant query are issued after the response.
C21_RespondsAtFirstAwait ==
    \A r \in Requests :
        LET p == passes[r]
        IN (Responded(r) /\ reqs[r].responses = <<200>>) =>
              /\ p.early = IF p.threwIn = "getClient" THEN 0 ELSE 1
              /\ \A k \in 1..p.early : p.calls[k].op = "product"

\* a request was answered 200 with the product query of its pass issued, and
\* the pass went on to issue a reorder mutation
C21_Witness ==
    \E r \in Requests :
        /\ reqs[r].responses = <<200>>
        /\ passes[r].early = 1
        /\ Len(passes[r].calls) >= 2
        /\ passes[r].calls[2].op = "collectionReorderProducts"

OutboundOps ==
    {"product", "collectionReorderProducts", "productVariants", "metafieldsSet"}

\* C22: no retry: within a pass every outbound call is issued at most once
\* (one product query, at most one reorder per collection, at most one variant
\* query, at most one metadata write), also after a failure: the call that
\* failed is the last call of the pass, which has ended; the number of calls
\* of a pass is bounded by its collections.
C22_NoRetry ==
    \A r \in Requests :
        LET p == passes[r]
        IN /\ \A j, k \in 1..Len(p.calls) :
                (/\ p.calls[j].op = p.calls[k].op
                 /\ p.calls[j].target = p.calls[k].target) => j = k
           /\ Len(p.calls) <= 1 + Len(p.response.colls) + 2
           /\ p.threwIn # "" => p.pc = "done"
           /\ p.threwIn \in OutboundOps =>
                p.calls[Len(p.calls)].op = p.threwIn

\* the reorder request of a collection failed and the pass has ended with it
\* issued once
C22_Witness ==
    \E r \in Requests :
        /\ passes[r].threwIn = "collectionReorderProducts"
        /\ passes[r].pc = "done"
        /\ ReorderCalls(passes[r]) = 1

\* the place of an outbound call in the order of a pass
OpRank(op) ==
    CASE op = "product" -> 0
      [] op = "collectionReorderProducts" -> 1
      [] op = "productVariants" -> 2
      [] OTHER -> 3

\* the index in the snapshot of pass p of the collection a reorder targets
CollectionIndex(p, id) ==
    CHOOSE c \in 1..Len(p.response.colls) : p.response.colls[c].id = id

InFlight(p) ==
    p.pc \in {"productQuery", "reorder", "variantsQuery", "metafieldsSet"}

\* C23: within a pass the outbound calls are strictly sequential and ordered:
\* a pass never has two calls outstanding; the product query has returned
\* before any other call; the reorders are issued in the fetch order of the
\* collections; the variant query and the metadata write come after the loop
\* over every collection; and every call is built from the one snapshot of
\* the product query.
C23_SequentialCalls ==
    \A r \in Requests :
        LET p == passes[r]
        IN /\ Len(p.calls) - p.returned = IF InFlight(p) THEN 1 ELSE 0
           /\ \A k \in 1..Len(p.calls) :
                LET call == p.calls[k]
                IN /\ (call.op = "product") <=> (k = 1)
                   /\ k > 1 => p.response # NoResponse
                   /\ call.op = "collectionReorderProducts" =>
                        /\ \E c \in 1..Len(p.response.colls) :
                              p.response.colls[c].id = call.target
                        /\ call.arg = Moves(
                              p.response.colls[CollectionIndex(p, call.target)]
                                .edges)
                   /\ call.op = "productVariants" =>
                        /\ LoopCompleted(p)
                        /\ call.arg = Flat(p.response.related.groups)
                   /\ call.op = "metafieldsSet" =>
                        /\ LoopCompleted(p)
                        /\ call.arg.ownerId = p.response.productId
           /\ \A j, k \in 1..Len(p.calls) :
                j < k =>
                    /\ OpRank(p.calls[j].op) <= OpRank(p.calls[k].op)
                    /\ (/\ p.calls[j].op = "collectionReorderProducts"
                        /\ p.calls[k].op = "collectionReorderProducts") =>
                          CollectionIndex(p, p.calls[j].target)
                            < CollectionIndex(p, p.calls[k].target)

\* a pass issued, one after the other, its product query, the reorder of c1,
\* the reorder of c2, the variant query and the metadata write, and returned
C23_Witness ==
    \E r \in Requests :
        LET p == passes[r]
        IN /\ p.pc = "done"
           /\ Len(p.calls) = 5
           /\ p.returned = 5
           /\ p.calls[2].target = "c1"
           /\ p.calls[3].target = "c2"
           /\ p.calls[5].op = "metafieldsSet"

====
